---- MODULE Spec2Model ----
(***************************************************************************)
(* Model of cli_2048: the grid engine (src/src/lib.rs) and the driver      *)
(* loop (src/src/main.rs).  A grid is a sequence of rows, each row a       *)
(* sequence of exponents (0 = empty, n = tile 2^n).  Indices are 1-based   *)
(* here and 0-based in the source.                                         *)
(***************************************************************************)
EXTENDS Integers, Sequences, FiniteSets, TLC

\* ---------------------------------------------------------------- bounds
\* Largest width (x_size) and height (y_size) tried by new and from_rows.
MaxWidth == 4
MaxHeight == 5
\* Largest number of cells (width * height) of a grid tried.
MaxCells == 4
\* Largest exponent in a caller-supplied grid (from_rows).
MaxExp == 2
\* Largest number of cells of a grid slid once (SpecWide).
MaxWideCells == 6

\* ------------------------------------------------------ program constants
\* Cells are u8: arithmetic on them is modulo 2^8 (release build).
U8 == 256

Directions == {"LEFT", "RIGHT", "UP", "DOWN"}

\* ------------------------------------------------------------ pipe maps
\* Each glyph is one character, written here by its Unicode code point.
PIPEMAP_THIN ==
  [horizontal |-> "U+2500", vertical |-> "U+2502", top_left |-> "U+250C",
   top_right |-> "U+2510", bottom_left |-> "U+2514", bottom_right |-> "U+2518",
   top_horizontal |-> "U+252C", bottom_horizontal |-> "U+2534",
   left_vertical |-> "U+251C", right_vertical |-> "U+2524", cross |-> "U+253C"]

PIPEMAP_MEDIUM ==
  [horizontal |-> "U+2501", vertical |-> "U+2503", top_left |-> "U+250F",
   top_right |-> "U+2513", bottom_left |-> "U+2517", bottom_right |-> "U+251B",
   top_horizontal |-> "U+2533", bottom_horizontal |-> "U+253B",
   left_vertical |-> "U+2523", right_vertical |-> "U+252B", cross |-> "U+254B"]

PIPEMAP_THICK ==
  [horizontal |-> "U+2550", vertical |-> "U+2551", top_left |-> "U+2554",
   top_right |-> "U+2557", bottom_left |-> "U+255A", bottom_right |-> "U+255D",
   top_horizontal |-> "U+2566", bottom_horizontal |-> "U+2569",
   left_vertical |-> "U+2560", right_vertical |-> "U+2563", cross |-> "U+256C"]

PIPEMAPS ==
  [Thin |-> PIPEMAP_THIN, Medium |-> PIPEMAP_MEDIUM, Thick |-> PIPEMAP_THICK]

PresetNames == DOMAIN PIPEMAPS

\* The preset Default::default() gives a grid.
DefaultPipes == "Thick"

\* ------------------------------------------------------- row operations
\* row.iter().rev().cloned().collect()
Reverse(row) == [i \in 1..Len(row) |-> row[Len(row) + 1 - i]]

\* (0..rows[0].len()).map(|col| rows.iter().map(|row| row[col]).collect())
Transpose(g) == [col \in 1..Len(g[1]) |-> [r \in 1..Len(g) |-> g[r][col]]]

\* vec![0; n]
Zeros(n) == [i \in 1..n |-> 0]

\* Variant of compress_row that puts the padding in front.
compress_row_pads_front(row) ==
  LET new_row == SelectSeq(row, LAMBDA x : x # 0)
  IN  Zeros(Len(row) - Len(new_row)) \o new_row

\* compress_row: the non-zero cells in order, padded with zeros.
compress_row(row) ==
  LET new_row == SelectSeq(row, LAMBDA x : x # 0)
  IN  new_row \o Zeros(Len(row) - Len(new_row))

\* Variant of MergeLoop that forgets row[i+1] = 0 after a merge.
RECURSIVE MergeLoopKeepsRight(_, _)
MergeLoopKeepsRight(row, i) ==
  IF i > Len(row) - 1 THEN row
  ELSE IF row[i] = row[i + 1] /\ row[i] # 0
       THEN MergeLoopKeepsRight([row EXCEPT ![i] = (row[i] + 1) % U8], i + 1)
       ELSE MergeLoopKeepsRight(row, i + 1)

\* Variant of MergeLoop that forgets row[i] += 1 in a merge.
RECURSIVE MergeLoopNoIncrement(_, _)
MergeLoopNoIncrement(row, i) ==
  IF i > Len(row) - 1 THEN row
  ELSE IF row[i] = row[i + 1] /\ row[i] # 0
       THEN MergeLoopNoIncrement([row EXCEPT ![i + 1] = 0], i + 1)
       ELSE MergeLoopNoIncrement(row, i + 1)

\* Variant of MergeLoop whose merge adds 2 to the exponent.
RECURSIVE MergeLoopAddsTwo(_, _)
MergeLoopAddsTwo(row, i) ==
  IF i > Len(row) - 1 THEN row
  ELSE IF row[i] = row[i + 1] /\ row[i] # 0
       THEN MergeLoopAddsTwo([row EXCEPT ![i] = (row[i] + 2) % U8, ![i + 1] = 0],
                             i + 1)
       ELSE MergeLoopAddsTwo(row, i + 1)

\* The for loop of combine_row from index i on (1-based): i runs to len-1.
RECURSIVE MergeLoop(_, _)
MergeLoop(row, i) ==
  IF i > Len(row) - 1 THEN row
  ELSE IF row[i] = row[i + 1] /\ row[i] # 0
       THEN MergeLoop([row EXCEPT ![i] = (row[i] + 1) % U8, ![i + 1] = 0], i + 1)
       ELSE MergeLoop(row, i + 1)

\* Variant of combine_row that forgets the final compress.
combine_row_no_recompress(row) == MergeLoop(compress_row(row), 1)

\* combine_row: compress, merge equal neighbours left to right, compress.
combine_row(row) == compress_row(MergeLoop(compress_row(row), 1))

\* rows.iter().map(|row| self.combine_row(row)).collect()
CombineAll(g) == [r \in 1..Len(g) |-> combine_row(g[r])]

ReverseAll(g) == [r \in 1..Len(g) |-> Reverse(g[r])]

\* Variant of Collapse whose UP forgets to rotate back.
Collapse_up_no_rotate_back(g, d) ==
  CASE d = "LEFT"  -> CombineAll(g)
    [] d = "RIGHT" -> ReverseAll(CombineAll(ReverseAll(g)))
    [] d = "UP"    -> CombineAll(Transpose(g))
    [] d = "DOWN"  -> Transpose(ReverseAll(CombineAll(ReverseAll(Transpose(g)))))

\* Variant of Collapse whose DOWN undoes its two rotations in the order it
\* made them.
Collapse_down_wrong_inverse(g, d) ==
  CASE d = "LEFT"  -> CombineAll(g)
    [] d = "RIGHT" -> ReverseAll(CombineAll(ReverseAll(g)))
    [] d = "UP"    -> Transpose(CombineAll(Transpose(g)))
    [] d = "DOWN"  -> ReverseAll(Transpose(CombineAll(ReverseAll(Transpose(g)))))

\* The match on dir in slide: rotate, operate, rotate back.
Collapse(g, d) ==
  CASE d = "LEFT"  -> CombineAll(g)
    [] d = "RIGHT" -> ReverseAll(CombineAll(ReverseAll(g)))
    [] d = "UP"    -> Transpose(CombineAll(Transpose(g)))
    [] d = "DOWN"  -> Transpose(ReverseAll(CombineAll(ReverseAll(Transpose(g)))))

\* ---------------------------------------------------------- random spawn
\* rng.gen_range(lo..hi): the half-open range lo..hi-1.
gen_range(lo, hi) == lo .. (hi - 1)

\* Every cell position <<x, y>> (row, column) in row-major order.
Positions(g) ==
  LET w == Len(g[1])
  IN  [k \in 1..(Len(g) * w) |-> <<((k - 1) \div w) + 1, ((k - 1) % w) + 1>>]

\* Variant of options that forgets the filter on empty cells.
options_unfiltered(g) == Positions(g)

\* options: the positions of all 0 cells, in row-major order.
options(g) == SelectSeq(Positions(g), LAMBDA o : g[o[1]][o[2]] = 0)

\* power: 1, or 2 when the draw r of gen_range(1..10) equals 10.
power(r) == IF r = 10 THEN 2 ELSE 1

\* Outcomes of a call: Ok(grid), Err(message), or a panic.
Ok(g, p) == [kind |-> "Ok", rows |-> g, pipes |-> p, err |-> ""]

Err(e) == [kind |-> "Err", rows |-> <<>>, pipes |-> "", err |-> e]

Panic(e) == [kind |-> "panic", rows |-> <<>>, pipes |-> "", err |-> e]

\* add_random_number: every result the two rng draws can produce.
add_random_number(g) ==
  LET opts == options(g)
  IN  IF Len(opts) = 0
      THEN {Err("no more options")}
      ELSE LET powers == {power(r) : r \in gen_range(1, 10)}
           IN  {Ok([g EXCEPT ![opts[k + 1][1]][opts[k + 1][2]] = pw],
                   DefaultPipes) :
                  k \in gen_range(0, Len(opts)), pw \in powers}

\* ---------------------------------------------------------- construction
\* Variant of NewPanics with || in place of &&.
NewPanicsEitherBelowTwo(x_size, y_size) ==
  x_size < 1 \/ y_size < 1 \/ (x_size < 2 \/ y_size < 2)

\* The panic condition of new (&& binds tighter than ||).
NewPanics(x_size, y_size) ==
  x_size < 1 \/ y_size < 1 \/ (x_size < 2 /\ y_size < 2)

\* Variant of EmptyRows with the two sizes swapped.
EmptyRowsSwapped(x_size, y_size) == [r \in 1..x_size |-> Zeros(y_size)]

\* vec![vec![0; x_size]; y_size]
EmptyRows(x_size, y_size) == [r \in 1..y_size |-> Zeros(x_size)]

\* unwrap: the value of Ok, a panic on Err.
unwrap(r) == IF r.kind = "Ok" THEN r ELSE Panic(r.err)

\* Variant of new that forgets the two starting numbers.
new_without_numbers(x_size, y_size) ==
  IF NewPanics(x_size, y_size) THEN {Panic("Grid size cannot be 0")}
  ELSE {Ok(EmptyRows(x_size, y_size), DefaultPipes)}

\* new: every outcome of the size check and the two unwrapped spawns.
new(x_size, y_size) ==
  IF NewPanics(x_size, y_size) THEN {Panic("Grid size cannot be 0")}
  ELSE UNION { IF unwrap(r1).kind = "panic" THEN {unwrap(r1)}
               ELSE { unwrap(r2) : r2 \in add_random_number(r1.rows) } :
               r1 \in add_random_number(EmptyRows(x_size, y_size)) }

\* from_rows: the given rows with the default pipes.
from_rows(g) == Ok(g, DefaultPipes)

\* with_pipes: the same rows with the given pipes.
with_pipes(g, p) == Ok(g, p)

\* ------------------------------------------------------------------ slide
\* Variant of slide that tests for a change before it spawns.
slide_change_first(g, d) ==
  LET new_rows == Collapse(g, d)
  IN  IF new_rows = g THEN {Ok(new_rows, DefaultPipes)}
      ELSE add_random_number(new_rows)

\* slide: collapse in direction d, spawn (the ? returns Err at once), then
\* return the spawned grid if the collapse changed the rows, else new_grid.
slide(g, d) ==
  LET new_rows == Collapse(g, d)
  IN  { IF r.kind # "Ok" THEN r
        ELSE IF new_rows # g THEN r
        ELSE Ok(new_rows, DefaultPipes) :
          r \in add_random_number(new_rows) }

\* -------------------------------------------------------------- rendering
\* Text is a sequence of characters, each a one-character string ("\n" ends
\* a line).
DigitChars == <<"0", "1", "2", "3", "4", "5", "6", "7", "8", "9">>

\* format!("{}", n): the decimal digits of n.
RECURSIVE Decimal(_)
Decimal(n) ==
  IF n < 10 THEN <<DigitChars[n + 1]>>
  ELSE Decimal(n \div 10) \o <<DigitChars[(n % 10) + 1]>>

\* n copies of the character c.
Repeat(c, n) == [i \in 1..n |-> c]

\* The concatenation of a sequence of sequences.
RECURSIVE Concat(_)
Concat(ss) == IF Len(ss) = 0 THEN <<>> ELSE Head(ss) \o Concat(Tail(ss))

\* format_digits: a blank for 0, else 2^number in decimal.
format_digits(number) ==
  IF number = 0 THEN <<" ">> ELSE Decimal(2 ^ number)

\* format_number: the digits, left-padded with spaces to len (len 0: as is).
format_number(number, len) ==
  LET digits == format_digits(number)
  IN  IF len = 0 THEN digits
      ELSE Repeat(" ", len - Len(digits)) \o digits

\* The for loop of formatted_numbers over the flattened cells: the longest
\* unpadded length, starting from 2.
RECURSIVE LongestFrom(_, _)
LongestFrom(cells, longest) ==
  IF Len(cells) = 0 THEN longest
  ELSE LongestFrom(Tail(cells),
         IF Len(format_number(Head(cells), 0)) > longest
         THEN Len(format_number(Head(cells), 0)) ELSE longest)

longest_string_len(g) == LongestFrom(Concat(g), 2)

\* formatted_numbers: every cell padded to the longest length.
formatted_numbers(g) ==
  [r \in 1..Len(g) |->
    [c \in 1..Len(g[r]) |-> format_number(g[r][c], longest_string_len(g))]]

\* One border line of fmt: left glyph, a run of horizontal glyphs per column
\* with the junction glyph between columns, right glyph, newline.
BorderLine(pm, grid_str, left, junction, right) ==
  LET n == Len(grid_str[1])
  IN  <<left>>
      \o Concat([i \in 1..n |->
           Repeat(pm.horizontal, Len(grid_str[1][1]))
           \o (IF i # n THEN <<junction>> ELSE <<>>)])
      \o <<right, "\n">>

\* One data row of fmt followed by its bottom border or cross-line.
RowLines(pm, grid_str, i) ==
  Concat([c \in 1..Len(grid_str[i]) |-> <<pm.vertical>> \o grid_str[i][c]])
  \o <<pm.vertical, "\n">>
  \o (IF i = Len(grid_str)
      THEN BorderLine(pm, grid_str, pm.bottom_left, pm.bottom_horizontal,
                      pm.bottom_right)
      ELSE BorderLine(pm, grid_str, pm.left_vertical, pm.cross,
                      pm.right_vertical))

\* Display::fmt: the text of grid g drawn with the pipes named p.
fmt(g, p) ==
  LET pm == PIPEMAPS[p]
      grid_str == formatted_numbers(g)
  IN  BorderLine(pm, grid_str, pm.top_left, pm.top_horizontal, pm.top_right)
      \o Concat([i \in 1..Len(grid_str) |-> RowLines(pm, grid_str, i)])

\* get_size: the (width, height) in characters get_size reports.
get_size(g) ==
  <<Len(g) * Len(formatted_numbers(g)[1][1]) + Len(g) + 1,
    Len(g[1]) * 2 + 1>>

\* The lines of a text: the runs of characters each newline ends.
RECURSIVE SplitLines(_, _)
SplitLines(text, line) ==
  IF Len(text) = 0 THEN (IF Len(line) = 0 THEN <<>> ELSE <<line>>)
  ELSE IF Head(text) = "\n" THEN <<line>> \o SplitLines(Tail(text), <<>>)
  ELSE SplitLines(Tail(text), Append(line, Head(text)))

Lines(text) == SplitLines(text, <<>>)

\* ------------------------------------------------------------------ state
\* rows, pipes: the fields of the driver's current Grid.
\* phase: "start" (no grid yet), "playing", "panicked", "over" (the driver
\*        got Err("no more options") and exited), "quit".
\* last:  the last operation, its inputs, its outcome and what it printed.
VARIABLES rows, pipes, phase, last

vars == <<rows, pipes, phase, last>>

NoOp ==
  [op |-> "none", x_size |-> 0, y_size |-> 0, prev |-> <<>>, dir |-> "none",
   collapsed |-> <<>>, result |-> "none", text |-> <<>>, size |-> <<0, 0>>]

\* The grids a caller can hand to from_rows, within the bounds.
Shapes ==
  {s \in (1..MaxWidth) \X (1..MaxHeight) : s[1] * s[2] <= MaxCells}

Grids == UNION { [1..s[2] -> [1..s[1] -> 0..MaxExp]] : s \in Shapes }

Init ==
  /\ rows = <<>>
  /\ pipes = DefaultPipes
  /\ phase = "start"
  /\ last = NoOp

\* main: Grid::new(x_size, y_size).
New(x_size, y_size) ==
  /\ phase = "start"
  /\ \E r \in new(x_size, y_size) :
       IF r.kind = "Ok"
       THEN /\ rows' = r.rows
            /\ pipes' = r.pipes
            /\ phase' = "playing"
            /\ last' = [NoOp EXCEPT !.op = "new", !.x_size = x_size,
                          !.y_size = y_size, !.result = "Ok"]
       ELSE /\ phase' = "panicked"
            /\ last' = [NoOp EXCEPT !.op = "new", !.x_size = x_size,
                          !.y_size = y_size, !.result = "panic"]
            /\ UNCHANGED <<rows, pipes>>

\* Grid::from_rows(g).
FromRows(g) ==
  /\ phase = "start"
  /\ rows' = from_rows(g).rows
  /\ pipes' = from_rows(g).pipes
  /\ phase' = "playing"
  /\ last' = [NoOp EXCEPT !.op = "from_rows", !.result = "Ok"]

\* grid = grid.with_pipes(PIPEMAPS.get(p).unwrap()).
WithPipes(p) ==
  /\ phase = "playing"
  /\ rows' = with_pipes(rows, p).rows
  /\ pipes' = with_pipes(rows, p).pipes
  /\ last' = [NoOp EXCEPT !.op = "with_pipes", !.result = "Ok"]
  /\ UNCHANGED phase

\* main, a direction key: grid = grid.slide(direction), exit on
\* Err("no more options").
Slide(d) ==
  /\ phase = "playing"
  /\ \E r \in slide(rows, d) :
       LET done == [NoOp EXCEPT !.op = "slide", !.prev = rows, !.dir = d,
                      !.collapsed = Collapse(rows, d), !.result = r.kind]
       IN  IF r.kind = "Ok"
           THEN /\ rows' = r.rows
                /\ pipes' = r.pipes
                /\ last' = done
                /\ UNCHANGED phase
           ELSE /\ phase' = IF r.err = "no more options" THEN "over"
                            ELSE "panicked"
                /\ last' = done
                /\ UNCHANGED <<rows, pipes>>

\* println!("{grid}"): the Display text of the current grid.
Render ==
  /\ phase = "playing"
  /\ last' = [NoOp EXCEPT !.op = "render", !.result = "Ok",
                !.text = fmt(rows, pipes)]
  /\ UNCHANGED <<rows, pipes, phase>>

\* grid.get_size().
GetSize ==
  /\ phase = "playing"
  /\ last' = [NoOp EXCEPT !.op = "get_size", !.result = "Ok",
                !.size = get_size(rows)]
  /\ UNCHANGED <<rows, pipes, phase>>

\* main, key q: exit.
Quit ==
  /\ phase = "playing"
  /\ phase' = "quit"
  /\ rows' = <<>>
  /\ pipes' = DefaultPipes
  /\ last' = NoOp

Next ==
  \/ \E x_size \in 0..MaxWidth :
       \E y_size \in {y \in 0..MaxHeight : x_size * y <= MaxCells} :
         New(x_size, y_size)
  \/ \E g \in Grids : FromRows(g)
  \/ \E p \in PresetNames : WithPipes(p)
  \/ \E d \in Directions : Slide(d)
  \/ Render
  \/ GetSize
  \/ Quit

Spec == Init /\ [][Next]_vars

\* The game: every grid comes from new, none from from_rows.
NextGame ==
  \/ \E x_size \in 0..MaxWidth :
       \E y_size \in {y \in 0..MaxHeight : x_size * y <= MaxCells} :
         New(x_size, y_size)
  \/ \E p \in PresetNames : WithPipes(p)
  \/ \E d \in Directions : Slide(d)
  \/ Render
  \/ GetSize
  \/ Quit

SpecGame == Init /\ [][NextGame]_vars

\* One slide of every grid of at least 2 rows and 2 columns and up to
\* MaxWideCells cells: from_rows(g), then slide(d).
WideShapes ==
  {s \in (2..MaxWidth) \X (2..MaxHeight) : s[1] * s[2] <= MaxWideCells}

WideGrids == UNION { [1..s[2] -> [1..s[1] -> 0..MaxExp]] : s \in WideShapes }

NextWide ==
  \/ \E g \in WideGrids : FromRows(g)
  \/ \E d \in Directions : last.op = "from_rows" /\ Slide(d)

SpecWide == Init /\ [][NextWide]_vars

\* ---------------------------------------------------------------- claims
\* Vocabulary of the claims.
NoEmpty(g) == \A r \in 1..Len(g) : \A c \in 1..Len(g[r]) : g[r][c] # 0

HasAdjacentEqual(g) ==
  \E r \in 1..Len(g) : \E c \in 1..Len(g[r]) :
    \/ c < Len(g[r]) /\ g[r][c] = g[r][c + 1]
    \/ r < Len(g) /\ g[r][c] = g[r + 1][c]

\* No empty cell and no two adjacent equal cells.
Stuck(g) == NoEmpty(g) /\ ~HasAdjacentEqual(g)

NonEmptyCells(g) ==
  {o \in (1..Len(g)) \X (1..Len(g[1])) : g[o[1]][o[2]] # 0}

EmptyCells(g) ==
  {o \in (1..Len(g)) \X (1..Len(g[1])) : g[o[1]][o[2]] = 0}

\* The cells in which two grids of the same shape differ.
DiffCells(g1, g2) ==
  {o \in (1..Len(g1)) \X (1..Len(g1[1])) : g1[o[1]][o[2]] # g2[o[1]][o[2]]}

SameShape(g1, g2) ==
  /\ Len(g1) = Len(g2)
  /\ \A r \in 1..Len(g1) : Len(g1[r]) = Len(g2[r])

Slid == last.op = "slide"

\* C1: slide returns the game-over signal, and the driver ends the game,
\* only on a grid with no empty cell and no two adjacent equal cells, that
\* is a grid no direction changes.
C1_GameOverOnlyWhenStuck ==
  /\ (Slid /\ last.result = "Err") =>
       /\ Stuck(last.prev)
       /\ \A d \in Directions : Collapse(last.prev, d) = last.prev
  /\ phase = "over" => Stuck(rows)

\* C2: on a grid with no empty cell and no two adjacent equal cells, slide
\* in each of the four directions returns Err("no more options"), never a
\* grid, and the driver ends the game.
C2_StuckGridIsGameOver ==
  /\ (phase = "playing" /\ Stuck(rows)) =>
       \A d \in Directions : slide(rows, d) = {Err("no more options")}
  /\ (Slid /\ Stuck(last.prev)) =>
       last.result = "Err" /\ phase = "over" /\ rows = last.prev

C2_Witness == Slid /\ Stuck(last.prev) /\ last.result = "Err"

\* C3: a slide in a direction that moves and merges nothing returns a grid
\* identical to the input, with no tile spawned, on full boards too.
C3_UnchangedSlideReturnsInput ==
  (Slid /\ last.collapsed = last.prev) =>
    last.result = "Ok" /\ phase = "playing" /\ rows = last.prev

\* C4: a slide that moves or merges a tile returns a grid that differs from
\* the collapsed rows in exactly one cell, empty before and non-empty after,
\* so it has exactly one more non-empty cell.
C4_ChangedSlideSpawnsOne ==
  (Slid /\ last.collapsed # last.prev) =>
    /\ last.result = "Ok"
    /\ EmptyCells(last.collapsed) # {}
    /\ SameShape(rows, last.collapsed)
    /\ Cardinality(DiffCells(rows, last.collapsed)) = 1
    /\ \A o \in DiffCells(rows, last.collapsed) :
         last.collapsed[o[1]][o[2]] = 0 /\ rows[o[1]][o[2]] # 0
    /\ Cardinality(NonEmptyCells(rows))
         = Cardinality(NonEmptyCells(last.collapsed)) + 1

\* A merge on a full board: the slide frees a cell and the spawn fills one.
C4_Witness ==
  /\ Slid /\ last.collapsed # last.prev /\ last.result = "Ok"
  /\ NoEmpty(last.prev)
  /\ Cardinality(EmptyCells(rows)) = 0

\* C5: new(width, height) with width, height >= 1 and not both < 2 gives a
\* grid of height rows of width cells with exactly two non-empty cells, each
\* 1 or 2, and all other cells 0.
C5_NewHasTwoTiles ==
  (/\ last.op = "new"
   /\ last.x_size >= 1 /\ last.y_size >= 1
   /\ ~(last.x_size < 2 /\ last.y_size < 2)) =>
    /\ last.result = "Ok" /\ phase = "playing"
    /\ Len(rows) = last.y_size
    /\ \A r \in 1..Len(rows) : Len(rows[r]) = last.x_size
    /\ Cardinality(NonEmptyCells(rows)) = 2
    /\ \A r \in 1..Len(rows) : \A c \in 1..Len(rows[r]) : rows[r][c] \in {0, 1, 2}

\* A non-square grid out of new.
C5_Witness ==
  /\ last.op = "new" /\ last.result = "Ok"
  /\ last.x_size = 3 /\ last.y_size = 1
  /\ rows = <<<<1, 0, 1>>>>

\* C6: new(width, height) panics exactly when width < 1, or height < 1, or
\* both are < 2: (1,0), (0,1), (0,5), (1,1) panic, (1,2) and (2,1) do not.
C6_NewPanicsExactly ==
  last.op = "new" =>
    /\ last.result \in {"Ok", "panic"}
    /\ last.result = "panic" <=>
         \/ last.x_size < 1
         \/ last.y_size < 1
         \/ (last.x_size < 2 /\ last.y_size < 2)
    /\ <<last.x_size, last.y_size>> \in {<<1, 0>>, <<0, 1>>, <<0, 5>>, <<1, 1>>}
         => last.result = "panic" /\ phase = "panicked"
    /\ <<last.x_size, last.y_size>> \in {<<1, 2>>, <<2, 1>>}
         => last.result = "Ok" /\ phase = "playing"

C6_Witness ==
  /\ last.op = "new" /\ last.result = "panic"
  /\ last.x_size = 1 /\ last.y_size = 1

\* The reference row-collapse of C7 on the non-zero cells s: pair each cell
\* with its right neighbour when equal, a pair becoming one cell of
\* exponent + 1 that takes no part in a further pair.
RECURSIVE RefPairs(_)
RefPairs(s) ==
  IF Len(s) < 2 THEN s
  ELSE IF s[1] = s[2] THEN <<s[1] + 1>> \o RefPairs(Tail(Tail(s)))
  ELSE <<s[1]>> \o RefPairs(Tail(s))

RefCollapse(row) ==
  LET merged == RefPairs(SelectSeq(row, LAMBDA x : x # 0))
  IN  merged \o [i \in 1..(Len(row) - Len(merged)) |-> 0]

\* C7: row-collapse equals the reference operator on every row: the rows a
\* LEFT slide collapsed, and the rows of the current grid.
C7_CombineRowIsReference ==
  /\ (Slid /\ last.dir = "LEFT") =>
       \A r \in 1..Len(last.prev) : last.collapsed[r] = RefCollapse(last.prev[r])
  /\ phase = "playing" =>
       \A r \in 1..Len(rows) : combine_row(rows[r]) = RefCollapse(rows[r])

\* [1,1,2] gives [2,2,0]: the merged tile does not merge again.
C7_Witness ==
  /\ Slid /\ last.dir = "LEFT"
  /\ last.prev = <<<<1, 1, 2>>>>
  /\ last.collapsed = <<<<2, 2, 0>>>>

\* C8: the rendered text has the width and line count get_size reports:
\* columns * field_width + columns + 1 characters a line, 2 * rows + 1 lines.
C8_RenderMatchesGetSize ==
  LET text == Lines(IF last.op = "render" THEN last.text ELSE fmt(rows, pipes))
      size == IF last.op = "get_size" THEN last.size ELSE get_size(rows)
      field_width == Len(formatted_numbers(rows)[1][1])
  IN  last.op \in {"render", "get_size"} =>
        /\ \A i \in 1..Len(text) : Len(text[i]) = size[1]
        /\ Len(text) = size[2]
        /\ size[1] = Len(rows[1]) * field_width + Len(rows[1]) + 1
        /\ size[2] = 2 * Len(rows) + 1

\* C9: on a grid with an empty cell the spawn can give exponent 1 and
\* exponent 2, and can fill any empty cell.
C9_SpawnGivesOneOrTwo ==
  (phase = "playing" /\ EmptyCells(rows) # {}) =>
    /\ { r.rows[o[1]][o[2]] : o \in EmptyCells(rows),
                              r \in add_random_number(rows) } \ {0} = {1, 2}
    /\ \A o \in EmptyCells(rows) :
         \E r \in add_random_number(rows) : r.rows[o[1]][o[2]] # 0

\* C10: slide returns the game-over signal exactly when the collapsed rows
\* have no empty cell, which is exactly when the input is full and the
\* collapse left it unchanged; otherwise it returns a grid.
C10_GameOverIffCollapsedFull ==
  Slid =>
    /\ last.result \in {"Ok", "Err"}
    /\ last.result = "Err" <=> NoEmpty(last.collapsed)
    /\ NoEmpty(last.collapsed) <=>
         (NoEmpty(last.prev) /\ last.collapsed = last.prev)
    /\ last.result = "Err" => phase = "over"
    /\ last.result = "Ok" => phase = "playing" /\ SameShape(rows, last.prev)

\* Game over on a full board that another direction would still merge.
C10_Witness ==
  /\ Slid /\ last.result = "Err"
  /\ NoEmpty(last.prev) /\ HasAdjacentEqual(last.prev)

\* Vocabulary of C11: the non-zero cells of a row and the row's tile value.
NonZeroCount(row) == Len(SelectSeq(row, LAMBDA x : x # 0))

RECURSIVE TileSum(_)
TileSum(row) ==
  IF Len(row) = 0 THEN 0
  ELSE (IF Head(row) = 0 THEN 0 ELSE 2 ^ Head(row)) + TileSum(Tail(row))

\* C11: row-collapse never increases the number of non-zero cells of a row
\* and keeps the row's total tile value (the sum of 2^exponent).
C11_CollapseKeepsTileSum ==
  /\ (Slid /\ last.dir = "LEFT") =>
       \A r \in 1..Len(last.prev) :
         /\ NonZeroCount(last.collapsed[r]) <= NonZeroCount(last.prev[r])
         /\ TileSum(last.collapsed[r]) = TileSum(last.prev[r])
  /\ phase = "playing" =>
       \A r \in 1..Len(rows) :
         /\ NonZeroCount(combine_row(rows[r])) <= NonZeroCount(rows[r])
         /\ TileSum(combine_row(rows[r])) = TileSum(rows[r])

\* A row with two merges: four tiles become two, the value stays 12.
C11_Witness ==
  /\ Slid /\ last.dir = "LEFT"
  /\ last.prev = <<<<1, 1, 2, 2>>>>
  /\ last.collapsed = <<<<2, 3, 0, 0>>>>

\* C12: compress gives a row of the same length, the non-zero cells in
\* their order followed only by zeros, and compressing twice changes nothing.
C12_CompressIsIdempotent ==
  LET Holds(row) ==
        LET c == compress_row(row)
            k == NonZeroCount(row)
        IN  /\ Len(c) = Len(row)
            /\ SubSeq(c, 1, k) = SelectSeq(row, LAMBDA x : x # 0)
            /\ \A i \in (k + 1)..Len(c) : c[i] = 0
            /\ compress_row(c) = c
  IN  /\ Slid => \A r \in 1..Len(last.prev) : Holds(last.prev[r])
      /\ phase = "playing" => \A r \in 1..Len(rows) : Holds(rows[r])

\* A LEFT slide of [0,2,0,1]: nothing merges, the collapse is the compress.
C12_Witness ==
  /\ Slid /\ last.dir = "LEFT"
  /\ last.prev = <<<<0, 2, 0, 1>>>>
  /\ last.collapsed = <<<<2, 1, 0, 0>>>>
  /\ compress_row(last.prev[1]) = last.collapsed[1]

\* Vocabulary of C13: the cells of row r and of column c of a grid, read in
\* either direction.
RowLeftToRight(g, r) == [i \in 1..Len(g[r]) |-> g[r][i]]

RowRightToLeft(g, r) == [i \in 1..Len(g[r]) |-> g[r][Len(g[r]) + 1 - i]]

ColumnTopDown(g, c) == [i \in 1..Len(g) |-> g[i][c]]

ColumnBottomUp(g, c) == [i \in 1..Len(g) |-> g[Len(g) + 1 - i][c]]

FlipVertical(g) == [r \in 1..Len(g) |-> g[Len(g) + 1 - r]]

FlipHorizontal(g) == [r \in 1..Len(g) |-> RowRightToLeft(g, r)]

\* C13: the collapsed rows of a slide are the left-collapse seen through the
\* direction's transform and its exact inverse: LEFT collapses every row
\* toward column 0, RIGHT toward the last column, UP every column toward
\* row 0, DOWN toward the last row; RIGHT is LEFT on the mirrored grid and
\* DOWN is UP on the vertically flipped grid, flipped back.
C13_DirectionsAreConjugates ==
  Slid =>
    LET g == last.prev
        c == last.collapsed
    IN  /\ SameShape(c, g)
        /\ last.dir = "LEFT" =>
             \A r \in 1..Len(g) :
               RowLeftToRight(c, r) = RefCollapse(RowLeftToRight(g, r))
        /\ last.dir = "RIGHT" =>
             /\ \A r \in 1..Len(g) :
                  RowRightToLeft(c, r) = RefCollapse(RowRightToLeft(g, r))
             /\ c = FlipHorizontal(Collapse(FlipHorizontal(g), "LEFT"))
        /\ last.dir = "UP" =>
             \A k \in 1..Len(g[1]) :
               ColumnTopDown(c, k) = RefCollapse(ColumnTopDown(g, k))
        /\ last.dir = "DOWN" =>
             /\ \A k \in 1..Len(g[1]) :
                  ColumnBottomUp(c, k) = RefCollapse(ColumnBottomUp(g, k))
             /\ c = FlipVertical(Collapse(FlipVertical(g), "UP"))

\* A DOWN slide of a grid of 2 rows and 3 columns.
C13_Witness ==
  /\ Slid /\ last.dir = "DOWN"
  /\ last.prev = <<<<1, 0, 2>>, <<1, 2, 0>>>>
  /\ last.collapsed = <<<<0, 0, 0>>, <<2, 2, 2>>>>

\* C14: the shape of the grid never changes: new(width, height) gives
\* height rows of width cells, and every slide, in any direction and on
\* non-square grids too, gives a grid of as many rows, each of as many
\* cells, as the grid it was called on.
C14_ShapeIsKept ==
  /\ [](last.op = "new" /\ last.result = "Ok" =>
          /\ Len(rows) = last.y_size
          /\ \A r \in 1..Len(rows) : Len(rows[r]) = last.x_size)
  /\ [][(phase = "playing" /\ phase' = "playing") =>
          /\ Len(rows') = Len(rows)
          /\ \A r \in 1..Len(rows') : Len(rows'[r]) = Len(rows[1])]_vars

\* An UP slide that moves a tile on a grid of 3 rows and 1 column.
C14_Witness ==
  /\ Slid /\ last.dir = "UP" /\ last.result = "Ok"
  /\ last.prev = <<<<0>>, <<1>>, <<2>>>>
  /\ Len(rows) = 3 /\ \A r \in 1..3 : Len(rows[r]) = 1

\* C15: slide leaves the line-style preset of the grid unchanged.
C15_SlideKeepsPipes ==
  [][(phase = "playing" /\ phase' = "playing" /\ last'.op = "slide") =>
       pipes' = pipes]_vars

\* C16: in every grid reachable from new by slides, every exponent is at
\* most width * height + 1, so that row[i] += 1 stays below 2^8.
C16_ExponentAtMostCellsPlusOne ==
  phase \in {"playing", "over"} =>
    \A r \in 1..Len(rows) : \A c \in 1..Len(rows[r]) :
      /\ rows[r][c] <= Len(rows) * Len(rows[1]) + 1
      /\ rows[r][c] + 1 < U8

\* A merge has made a tile of exponent 3 on a grid of 3 cells.
C16_Witness ==
  /\ Slid /\ last.collapsed # last.prev
  /\ Len(rows) * Len(rows[1]) = 3
  /\ \E r \in 1..Len(rows) : \E c \in 1..Len(rows[r]) : rows[r][c] = 3

\* C17: the game is never stuck without a game-over signal: in every grid
\* reachable from new by slides that has an empty cell, some direction
\* changes the board, and slide in it returns a grid with one new tile; and
\* in every grid some direction either changes the board or signals game
\* over.
C17_NeverStuck ==
  phase = "playing" =>
    /\ EmptyCells(rows) # {} =>
         \E d \in Directions :
           /\ Collapse(rows, d) # rows
           /\ \A r \in slide(rows, d) :
                /\ r.kind = "Ok"
                /\ r.rows # rows
                /\ Cardinality(NonEmptyCells(r.rows))
                     = Cardinality(NonEmptyCells(Collapse(rows, d))) + 1
    /\ \E d \in Directions :
         \A r \in slide(rows, d) : r.kind = "Err" \/ r.rows # rows

\* A slide that changed nothing on a grid with an empty cell: another
\* direction still moves.
C17_Witness ==
  /\ Slid /\ last.result = "Ok" /\ phase = "playing"
  /\ last.collapsed = last.prev
  /\ EmptyCells(rows) # {}
  /\ \E d \in Directions : Collapse(rows, d) # rows

====
